---- MODULE Spec2Model ----
(***************************************************************************)
(* Authentication / session core of the Fraudlr platform:                  *)
(*   src/lib/auth.ts            tokens, password hashing, session cookie   *)
(*   api/auth/signup, login, logout, me   the four route handlers          *)
(*   prisma migration           the four tables, indexes, foreign keys     *)
(* Browsers send requests; handlers run interleaved at their storage       *)
(* awaits; storage is the shared state.                                    *)
(*   Spec          the routes, the browsers and the clock                  *)
(*   SpecToken     createToken / verifyToken on their own                  *)
(*   SpecStorage   the tables on their own: inserts and cascading deletes  *)
(*   SpecPassword  hashPassword / comparePasswords on their own            *)
(*   SpecSession   the clock readings of a run that sets the session       *)
(*   SpecVerify    verifyToken called while Accounts come and go           *)
(*   SpecHash      the routes beside a stored hash that is replaced        *)
(***************************************************************************)
EXTENDS Integers, Sequences, FiniteSets, TLC

\* ---------------------------------------------------------------- bounds
NumBrowsers == 2
MaxIds == 2
MaxTicks == 2
MaxRequests == 3

\* Ids of rows in "cases" and in "integrations"
MaxRows == 2

\* Secrets produced by hashPassword and held at once
MaxSecrets == 2

\* ------------------------------------------------------------- constants
\* auth.ts: const TOKEN_EXPIRY = 60 * 60 * 24 * 7
TOKEN_EXPIRY == 60 * 60 * 24 * 7

\* auth.ts: process.env.JWT_SECRET || "your-secret-key-change-in-production"
FallbackSecret == "your-secret-key-change-in-production"

VARIABLES
    users,          \* rows of table "users"
    subscriptions,  \* rows of table "subscriptions"
    cases,          \* rows of table "cases"
    integrations,   \* rows of table "integrations"
    nextId,         \* ids handed out so far (cuid() is unique per row)
    now,            \* current instant, seconds
    ticks,          \* number of clock advances so far
    served,         \* number of requests accepted so far
    envJwtSecret,   \* process.env.JWT_SECRET ("" when unset)
    nodeEnv,        \* process.env.NODE_ENV
    envJwtExpiresIn, \* process.env.JWT_EXPIRES_IN ("" when unset)
    jar,            \* per browser: the "auth-token" cookie it holds
    kept,           \* per browser: copy of the last token the client received
    req,            \* per browser: the request in flight
    resp,           \* the most recent HTTP response and its receiver
    last,           \* what the handler run that produced it did (observer)
    tok,            \* token under test (token specification)
    tokKind,        \* how the token under test was produced
    tokResult,      \* outcome of the last verifyToken on the token under test
    secrets,        \* secrets produced by hashPassword, each with its password
    compared        \* outcome of the last comparePasswords (password functions)

vars == <<users, subscriptions, cases, integrations, nextId, now, ticks,
          served, envJwtSecret, nodeEnv, envJwtExpiresIn,
          jar, kept, req, resp, last, tok, tokKind, tokResult,
          secrets, compared>>

\* environment configuration, read-only after startup
config == <<envJwtSecret, nodeEnv, envJwtExpiresIn>>

\* the tables only the schema knows: no route reads or writes them
ownedRows == <<cases, integrations>>

tokVars == <<tok, tokKind, tokResult>>

pwVars == <<secrets, compared>>

Browsers == 1..NumBrowsers

\* ------------------------------------------------------------ JS values
\* null / undefined
NULL == [null |-> TRUE]

\* An email literal is a sequence of characters.
Str_aAtB == <<"a", "@", "b", ".", "c">>
Str_AAtB == <<"A", "@", "b", ".", "c">>
Str_xAtY == <<"x", "@", "y", ".", "z">>
Str_noDot == <<"a", "@", "b">>
Str_space == <<"a", " ", "@", "b", ".", "c">>
Str_empty == << >>

\* Faulty variant: the email is used as typed
ToLowerCase_AsTyped(s) == s

\* String.prototype.toLowerCase on the characters used here
LowerChar(ch) ==
    CASE ch = "A" -> "a"
      [] ch = "B" -> "b"
      [] ch = "X" -> "x"
      [] OTHER -> ch

\* email.toLowerCase()
ToLowerCase(s) == [i \in DOMAIN s |-> LowerChar(s[i])]

\* signup route: /^[^\s@]+@[^\s@]+\.[^\s@]+$/.test(email)
EmailRegexTest(s) ==
    /\ \A i \in DOMAIN s : s[i] # " "
    /\ Cardinality({i \in DOMAIN s : s[i] = "@"}) = 1
    /\ \E i \in DOMAIN s :
          /\ s[i] = "@"
          /\ i > 1
          /\ \E j \in DOMAIN s : j > i + 1 /\ j < Len(s) /\ s[j] = "."

\* Outcome of a call: a returned value or a raised exception
Return(v) == [raised |-> FALSE, value |-> v]
Raise(e) == [raised |-> TRUE, value |-> [exception |-> e]]

\* ---------------------------------------------------------------- tokens
\* auth.ts: const JWT_SECRET = new TextEncoder().encode(env.JWT_SECRET || fallback)
JWT_SECRET == IF envJwtSecret = "" THEN FallbackSecret ELSE envJwtSecret

\* HMAC tag over the first two segments: equal tags iff same key and same
\* signed content
Sign(key, header, payload) ==
    [key |-> key, header |-> header, payload |-> payload]

\* A compact token has exactly three segments
WellFormed(token) == DOMAIN token = {"header", "payload", "signature"}

\* auth.ts createToken: SignJWT(payload).setProtectedHeader({alg:"HS256"})
\*   .setIssuedAt().setExpirationTime(`${TOKEN_EXPIRY}s`).sign(JWT_SECRET)
\* setIssuedAt() and setExpirationTime("<n>s") each read the clock: iat is
\* the second of the first reading, exp the second of the next one plus n
CreateToken(payload, tIat, tExp) ==
    LET header == [alg |-> "HS256"]
        claims == [userId |-> payload.userId, email |-> payload.email,
                   iat |-> tIat, exp |-> tExp + TOKEN_EXPIRY]
    IN  [header |-> header, payload |-> claims,
         signature |-> Sign(JWT_SECRET, header, claims)]

\* Faulty variant: the expiration claim is not checked
JwtVerify_NoExpiry(token, key, t) ==
    IF ~WellFormed(token) THEN Raise("JWSInvalid")
    ELSE IF token.header.alg \notin {"HS256", "HS384", "HS512"}
         THEN Raise("JOSEAlgNotAllowed")
    ELSE IF token.signature # Sign(key, token.header, token.payload)
         THEN Raise("JWSSignatureVerificationFailed")
    ELSE Return(token.payload)

\* Faulty variant: the payload is decoded without verifying the signature
JwtVerify_NoSignature(token, key, t) ==
    IF ~WellFormed(token) THEN Raise("JWSInvalid")
    ELSE IF token.payload.exp <= t THEN Raise("JWTExpired")
    ELSE Return(token.payload)

\* jose jwtVerify(token, key): structure, algorithm, signature, then exp
JwtVerify(token, key, t) ==
    IF ~WellFormed(token) THEN Raise("JWSInvalid")
    ELSE IF token.header.alg \notin {"HS256", "HS384", "HS512"}
         THEN Raise("JOSEAlgNotAllowed")
    ELSE IF token.signature # Sign(key, token.header, token.payload)
         THEN Raise("JWSSignatureVerificationFailed")
    ELSE IF token.payload.exp <= t THEN Raise("JWTExpired")
    ELSE Return(token.payload)

\* Faulty variant: only signature errors are caught, expiry is rethrown
VerifyToken_Rethrow(token, t) ==
    LET r == JwtVerify(token, JWT_SECRET, t)
    IN  IF r.raised /\ r.value.exception = "JWTExpired" THEN r
        ELSE IF r.raised THEN Return(NULL) ELSE Return(r.value)

\* Faulty variant: a token counts only while its Account has a row
VerifyToken_ChecksAccount(token, t) ==
    LET r == JwtVerify(token, JWT_SECRET, t)
    IN  IF r.raised THEN Return(NULL)
        ELSE IF \E u \in users : u.id = r.value.userId THEN Return(r.value)
        ELSE Return(NULL)

\* auth.ts verifyToken: try { jwtVerify } catch { return null }
VerifyToken(token, t) ==
    LET r == JwtVerify(token, JWT_SECRET, t)
    IN  IF r.raised THEN Return(NULL) ELSE Return(r.value)

\* What a presented cookie value is at instant t, judged on the token itself
\* (observer's classification, independent of verifyToken)
TokenClass(cookieValue, t) ==
    IF cookieValue = NULL THEN "absent"
    ELSE IF ~WellFormed(cookieValue) THEN "malformed"
    ELSE IF cookieValue.header.alg # "HS256" THEN "badalg"
    ELSE IF cookieValue.signature.key # JWT_SECRET THEN "otherkey"
    ELSE IF cookieValue.signature.payload # cookieValue.payload THEN "tampered"
    ELSE IF cookieValue.payload.exp <= t THEN "expired"
    ELSE "valid"

\* ------------------------------------------------------------- passwords
\* The key bcrypt derives from a password: the key schedule reads 72 bytes
\* of it and nothing beyond them
BcryptKey(password) ==
    IF Len(password) > 72 THEN SubSeq(password, 1, 72) ELSE password

\* auth.ts hashPassword: bcrypt.hash(password, 12); the salt is fresh
HashPassword(password, salt) ==
    [cost |-> 12, salt |-> salt,
     digest |-> [cost |-> 12, salt |-> salt,
                 password |-> BcryptKey(password)]]

\* auth.ts comparePasswords: bcrypt.compare re-hashes with the embedded salt
ComparePasswords(password, hashedPassword) ==
    hashedPassword.digest =
        [cost |-> hashedPassword.cost, salt |-> hashedPassword.salt,
         password |-> BcryptKey(password)]

\* ---------------------------------------------------------------- cookie
\* Faulty variant: the cookie is given one day
SetAuthCookie_OneDay(token, t) ==
    [name |-> "auth-token", value |-> token, httpOnly |-> TRUE,
     secure |-> (nodeEnv = "production"), sameSite |-> "lax",
     maxAge |-> 60 * 60 * 24, path |-> "/", setAt |-> t]

\* Faulty variant: the secure flag is never set
SetAuthCookie_NeverSecure(token, t) ==
    [name |-> "auth-token", value |-> token, httpOnly |-> TRUE,
     secure |-> FALSE, sameSite |-> "lax",
     maxAge |-> TOKEN_EXPIRY, path |-> "/", setAt |-> t]

\* auth.ts setAuthCookie: cookieStore.set("auth-token", token, {...});
\* t is the instant the browser receives the cookie
SetAuthCookie(token, t) ==
    [name |-> "auth-token", value |-> token, httpOnly |-> TRUE,
     secure |-> (nodeEnv = "production"), sameSite |-> "lax",
     maxAge |-> TOKEN_EXPIRY, path |-> "/", setAt |-> t]

\* Faulty variant: deleting a cookie that is not there raises
ClearAuthCookie_ThrowsWhenAbsent(cookie) ==
    IF cookie = NULL THEN Raise("TypeError") ELSE Return(NULL)

\* auth.ts clearAuthCookie: cookieStore.delete("auth-token")
ClearAuthCookie(cookie) == Return(NULL)

\* Browser: a cookie is sent until its max-age has elapsed
CookieSent(cookie, t) ==
    IF cookie = NULL THEN NULL
    ELSE IF t >= cookie.setAt + cookie.maxAge THEN NULL
    ELSE cookie.value

\* Faulty variant: the payload is decoded, not verified
GetCurrentUser_Decode(cookieValue, t) ==
    IF cookieValue = NULL THEN Return(NULL)
    ELSE IF WellFormed(cookieValue) THEN Return(cookieValue.payload)
    ELSE Return(NULL)

\* Faulty variant: .value is read without the optional chain
GetCurrentUser_NoGuard(cookieValue, t) ==
    IF cookieValue = NULL THEN Raise("TypeError")
    ELSE VerifyToken(cookieValue, t)

\* auth.ts getCurrentUser: token = cookies().get("auth-token")?.value
GetCurrentUser(cookieValue, t) ==
    IF cookieValue = NULL THEN Return(NULL) ELSE VerifyToken(cookieValue, t)

\* --------------------------------------------------------------- storage
\* prisma.user.findUnique({ where: { email } })
FindUniqueByEmail(email) ==
    IF \E u \in users : u.email = email
    THEN CHOOSE u \in users : u.email = email
    ELSE NULL

\* prisma.user.findUnique({ where: { id } })
FindUniqueById(id) ==
    IF \E u \in users : u.id = id
    THEN CHOOSE u \in users : u.id = id
    ELSE NULL

\* me route: select { subscription: { tier, csvUploadsThisMonth, isActive } }
SubscriptionOf(id) ==
    IF \E s \in subscriptions : s.userId = id
    THEN LET s == CHOOSE s \in subscriptions : s.userId = id
         IN  [tier |-> s.tier, csvUploadsThisMonth |-> s.csvUploadsThisMonth,
              isActive |-> s.isActive]
    ELSE NULL

\* Faults of one storage call: none, connection lost before the first
\* statement, or lost between the two inserts of a nested write
Faults == {"none", "before", "between"}

\* Faults of the run that inserts: those of the insert, or an exception
\* raised after it by createToken or setAuthCookie
RunFaults == Faults \cup {"after"}

\* Faulty variant: two separate inserts, no transaction around them
UserCreate_NonAtomic(id, email, password, name, fault) ==
    LET row == [id |-> id, email |-> email, password |-> password,
                name |-> name]
        sub == [id |-> id, userId |-> id, tier |-> "FREE",
                csvUploadsThisMonth |-> 0, isActive |-> TRUE]
    IN  IF fault = "before"
        THEN [raised |-> TRUE, code |-> "P1001",
              users |-> users, subscriptions |-> subscriptions]
        ELSE IF \E u \in users : u.email = email
        THEN [raised |-> TRUE, code |-> "P2002",
              users |-> users, subscriptions |-> subscriptions]
        ELSE IF fault = "between"
        THEN [raised |-> TRUE, code |-> "P1001",
              users |-> users \cup {row}, subscriptions |-> subscriptions]
        ELSE [raised |-> FALSE, code |-> "",
              users |-> users \cup {row},
              subscriptions |-> subscriptions \cup {sub}]

\* Faulty variant: the users table has no unique index on email
UserCreate_NoUniqueIndex(id, email, password, name, fault) ==
    LET row == [id |-> id, email |-> email, password |-> password,
                name |-> name]
        sub == [id |-> id, userId |-> id, tier |-> "FREE",
                csvUploadsThisMonth |-> 0, isActive |-> TRUE]
    IN  IF fault # "none"
        THEN [raised |-> TRUE, code |-> "P1001",
              users |-> users, subscriptions |-> subscriptions]
        ELSE [raised |-> FALSE, code |-> "",
              users |-> users \cup {row},
              subscriptions |-> subscriptions \cup {sub}]

\* prisma.user.create({ data: { ..., subscription: { create: {...} } } })
\* A nested write runs in one transaction; users_email_key is UNIQUE.
\* (createdAt / updatedAt / startDate are filled by column defaults and read
\* back unchanged; the rows here carry the columns the handlers decide on.)
UserCreate(id, email, password, name, fault) ==
    LET row == [id |-> id, email |-> email, password |-> password,
                name |-> name]
        sub == [id |-> id, userId |-> id, tier |-> "FREE",
                csvUploadsThisMonth |-> 0, isActive |-> TRUE]
    IN  IF fault # "none"
        THEN [raised |-> TRUE, code |-> "P1001",
              users |-> users, subscriptions |-> subscriptions]
        ELSE IF \E u \in users : u.email = email
        THEN [raised |-> TRUE, code |-> "P2002",
              users |-> users, subscriptions |-> subscriptions]
        ELSE [raised |-> FALSE, code |-> "",
              users |-> users \cup {row},
              subscriptions |-> subscriptions \cup {sub}]

\* Faulty variant: cases_userId_fkey is missing, cases outlive their owner
DeleteCascade_CasesKept(id) ==
    [users |-> {u \in users : u.id # id},
     subscriptions |-> {s \in subscriptions : s.userId # id},
     cases |-> cases,
     integrations |-> {i \in integrations : i.userId # id}]

\* DELETE FROM users WHERE id = ...: the three foreign keys on "userId" are
\* ON DELETE CASCADE, the owned rows go in the same statement
DeleteCascade(id) ==
    [users |-> {u \in users : u.id # id},
     subscriptions |-> {s \in subscriptions : s.userId # id},
     cases |-> {c \in cases : c.userId # id},
     integrations |-> {i \in integrations : i.userId # id}]

\* An Account is deleted (no route does it; storage allows it)
DeleteUser(id) ==
    /\ \E u \in users : u.id = id
    /\ LET r == DeleteCascade(id)
       IN  /\ users' = r.users
           /\ subscriptions' = r.subscriptions
           /\ cases' = r.cases
           /\ integrations' = r.integrations
    /\ UNCHANGED <<nextId, now, ticks, served, config, pwVars, jar, kept,
                   req, resp, last, tokVars>>

\* -------------------------------------------------------------- requests
IDLE == [op |-> "idle"]

ErrorBody(msg) == [error |-> msg]

\* Faulty variant: the whole row is returned, password hash included
PublicUser_WithHash(u) ==
    [id |-> u.id, email |-> u.email, name |-> u.name, password |-> u.password]

\* { id, email, name } of a row
PublicUser(u) == [id |-> u.id, email |-> u.email, name |-> u.name]

\* Set-Cookie header of a response: none, the session cookie, or its deletion
NoSetCookie == [kind |-> "none"]
SetCookie(cookie) == [kind |-> "set", cookie |-> cookie]
DeleteCookie == [kind |-> "delete"]

\* NextResponse.json(body, { status }) plus the cookie header the run added
Json(body, status, setCookie) ==
    [status |-> status, body |-> body, setCookie |-> setCookie]

\* Faulty variant: a cookie already in the jar is not replaced by a new one
Answer_KeepsFirstCookie(b, response, observed) ==
    /\ resp' = [browser |-> b, status |-> response.status,
                body |-> response.body,
                setCookie |-> response.setCookie.kind]
    /\ last' = [browser |-> b, run |-> observed]
    /\ req' = [req EXCEPT ![b] = IDLE]
    /\ jar' = [jar EXCEPT ![b] =
                 CASE response.setCookie.kind = "set" /\ jar[b] = NULL ->
                          response.setCookie.cookie
                   [] response.setCookie.kind = "delete" -> NULL
                   [] OTHER -> jar[b]]
    /\ kept' = [kept EXCEPT ![b] =
                 IF response.setCookie.kind = "set"
                 THEN response.setCookie.cookie.value ELSE kept[b]]

\* The handler of browser b answers: the browser receives the response and
\* applies its cookie header to the jar (the cookie itself is then in the
\* jar; resp keeps which header was sent); `observed` records what the run did
Answer(b, response, observed) ==
    /\ resp' = [browser |-> b, status |-> response.status,
                body |-> response.body,
                setCookie |-> response.setCookie.kind]
    /\ last' = [browser |-> b, run |-> observed]
    /\ req' = [req EXCEPT ![b] = IDLE]
    /\ jar' = [jar EXCEPT ![b] =
                 CASE response.setCookie.kind = "set" ->
                          response.setCookie.cookie
                   [] response.setCookie.kind = "delete" -> NULL
                   [] OTHER -> jar[b]]
    /\ kept' = [kept EXCEPT ![b] =
                 IF response.setCookie.kind = "set"
                 THEN response.setCookie.cookie.value ELSE kept[b]]

\* Inputs sent by clients
SignupBodies ==
    {[name |-> "Al", email |-> Str_aAtB, password |-> "longenough1"],
     [name |-> "", email |-> Str_AAtB, password |-> "longenough1"],
     [name |-> "", email |-> Str_xAtY, password |-> "longenough1"],
     [name |-> "", email |-> Str_aAtB, password |-> "short"],
     [name |-> "", email |-> Str_noDot, password |-> "longenough1"],
     [name |-> "", email |-> Str_space, password |-> "longenough1"],
     [name |-> "Al", email |-> Str_empty, password |-> "longenough1"],
     [name |-> "Al", email |-> Str_aAtB, password |-> ""]}

LoginBodies ==
    {[email |-> Str_aAtB, password |-> "longenough1"],
     [email |-> Str_AAtB, password |-> "longenough1"],
     [email |-> Str_xAtY, password |-> "longenough1"],
     [email |-> Str_aAtB, password |-> "short"],
     [email |-> Str_empty, password |-> "longenough1"],
     [email |-> Str_xAtY, password |-> ""]}

Salts == {1}

InFlightSignups == Cardinality({b \in Browsers : req[b].op = "signup"})

\* signup route: name || null (a kept name is a boxed string)
NameOrNull(name) == IF name = "" THEN NULL ELSE [string |-> name]

\* ---------------------------------------------------------------- signup
\* Faulty variant: the existence check runs before the format and length
\* validation
SignupCheck_DuplicateFirst(b, name, email, password, fault) ==
    /\ req[b] = IDLE
    /\ nextId + InFlightSignups < MaxIds
    /\ served < MaxRequests
    /\ served' = served + 1
    /\ UNCHANGED <<users, subscriptions, nextId, now, ticks, config, ownedRows, pwVars, tokVars>>
    /\ IF email = Str_empty \/ password = ""
       THEN Answer(b, Json(ErrorBody("Email and password are required"), 400,
                           NoSetCookie),
                   [op |-> "signup", path |-> "missing", fault |-> "none"])
       ELSE IF fault # "none"
       THEN Answer(b, Json(ErrorBody("An error occurred during registration"),
                           500, NoSetCookie),
                   [op |-> "signup", path |-> "check-raised",
                    fault |-> "P1001"])
       ELSE IF FindUniqueByEmail(ToLowerCase(email)) # NULL
       THEN Answer(b, Json(ErrorBody("An account with this email already exists"),
                           409, NoSetCookie),
                   [op |-> "signup", path |-> "exists", fault |-> "none"])
       ELSE IF ~EmailRegexTest(email)
       THEN Answer(b, Json(ErrorBody("Invalid email format"), 400,
                           NoSetCookie),
                   [op |-> "signup", path |-> "format", fault |-> "none"])
       ELSE IF Len(password) < 8
       THEN Answer(b, Json(ErrorBody("Password must be at least 8 characters"),
                           400, NoSetCookie),
                   [op |-> "signup", path |-> "short", fault |-> "none"])
       ELSE /\ req' = [req EXCEPT ![b] =
                        [op |-> "signup", pc |-> "create", name |-> name,
                         email |-> email, password |-> password]]
            /\ UNCHANGED <<jar, kept, resp, last>>

\* signup route lines 26-66: parse, validate, existence check
SignupCheck(b, name, email, password, fault) ==
    /\ req[b] = IDLE
    /\ nextId + InFlightSignups < MaxIds
    /\ served < MaxRequests
    /\ served' = served + 1
    /\ UNCHANGED <<users, subscriptions, nextId, now, ticks, config, ownedRows, pwVars, tokVars>>
    /\ IF email = Str_empty \/ password = ""
       THEN Answer(b, Json(ErrorBody("Email and password are required"), 400,
                           NoSetCookie),
                   [op |-> "signup", path |-> "missing", fault |-> "none"])
       ELSE IF ~EmailRegexTest(email)
       THEN Answer(b, Json(ErrorBody("Invalid email format"), 400,
                           NoSetCookie),
                   [op |-> "signup", path |-> "format", fault |-> "none"])
       ELSE IF Len(password) < 8
       THEN Answer(b, Json(ErrorBody("Password must be at least 8 characters"),
                           400, NoSetCookie),
                   [op |-> "signup", path |-> "short", fault |-> "none"])
       ELSE IF fault # "none"
       THEN Answer(b, Json(ErrorBody("An error occurred during registration"),
                           500, NoSetCookie),
                   [op |-> "signup", path |-> "check-raised",
                    fault |-> "P1001"])
       ELSE IF FindUniqueByEmail(ToLowerCase(email)) # NULL
       THEN Answer(b, Json(ErrorBody("An account with this email already exists"),
                           409, NoSetCookie),
                   [op |-> "signup", path |-> "exists", fault |-> "none"])
       ELSE /\ req' = [req EXCEPT ![b] =
                        [op |-> "signup", pc |-> "create", name |-> name,
                         email |-> email, password |-> password]]
            /\ UNCHANGED <<jar, kept, resp, last>>

\* Faulty variant: the token carries the email as typed in the request
SignupCreate_TokenRawEmail(b, salt, fault) ==
    /\ req[b].op = "signup"
    /\ LET r == UserCreate(nextId + 1, ToLowerCase(req[b].email),
                           HashPassword(req[b].password, salt),
                           NameOrNull(req[b].name),
                           IF fault = "after" THEN "none" ELSE fault)
           user == [id |-> nextId + 1, email |-> ToLowerCase(req[b].email),
                    name |-> NameOrNull(req[b].name)]
           token == CreateToken([userId |-> user.id, email |-> req[b].email],
                                now, now)
       IN  /\ users' = r.users
           /\ subscriptions' = r.subscriptions
           /\ IF r.raised
              THEN /\ Answer(b, Json(ErrorBody("An error occurred during registration"),
                                     500, NoSetCookie),
                             [op |-> "signup", path |-> "create-raised",
                              fault |-> r.code])
                   /\ UNCHANGED nextId
              ELSE IF fault = "after"
              THEN /\ Answer(b, Json(ErrorBody("An error occurred during registration"),
                                     500, NoSetCookie),
                             [op |-> "signup", path |-> "issue-raised",
                              fault |-> "JWSInvalid"])
                   /\ nextId' = nextId + 1
              ELSE /\ Answer(b, Json([message |-> "Account created successfully",
                                      user |-> user],
                                     201, SetCookie(SetAuthCookie(token, now))),
                             [op |-> "signup", path |-> "created",
                              fault |-> "none"])
                   /\ nextId' = nextId + 1
    /\ UNCHANGED <<now, ticks, served, config, ownedRows, pwVars, tokVars>>

\* Faulty variant: the catch block answers with the exception's own text
SignupCreate_LeaksError(b, salt, fault) ==
    /\ req[b].op = "signup"
    /\ LET r == UserCreate(nextId + 1, ToLowerCase(req[b].email),
                           HashPassword(req[b].password, salt),
                           NameOrNull(req[b].name),
                           IF fault = "after" THEN "none" ELSE fault)
           user == [id |-> nextId + 1, email |-> ToLowerCase(req[b].email),
                    name |-> NameOrNull(req[b].name)]
           token == CreateToken([userId |-> user.id, email |-> user.email], now,
                                now)
       IN  /\ users' = r.users
           /\ subscriptions' = r.subscriptions
           /\ IF r.raised
              THEN /\ Answer(b, Json(ErrorBody(r.code), 500, NoSetCookie),
                             [op |-> "signup", path |-> "create-raised",
                              fault |-> r.code])
                   /\ UNCHANGED nextId
              ELSE IF fault = "after"
              THEN /\ Answer(b, Json(ErrorBody("An error occurred during registration"),
                                     500, NoSetCookie),
                             [op |-> "signup", path |-> "issue-raised",
                              fault |-> "JWSInvalid"])
                   /\ nextId' = nextId + 1
              ELSE /\ Answer(b, Json([message |-> "Account created successfully",
                                      user |-> user],
                                     201, SetCookie(SetAuthCookie(token, now))),
                             [op |-> "signup", path |-> "created",
                              fault |-> "none"])
                   /\ nextId' = nextId + 1
    /\ UNCHANGED <<now, ticks, served, config, ownedRows, pwVars, tokVars>>

\* signup route lines 68-122: hash, nested create, token, cookie, 201; the
\* catch-all answers 500 when the insert or, after it, createToken or
\* setAuthCookie raises
SignupCreate(b, salt, fault) ==
    /\ req[b].op = "signup"
    /\ LET r == UserCreate(nextId + 1, ToLowerCase(req[b].email),
                           HashPassword(req[b].password, salt),
                           NameOrNull(req[b].name),
                           IF fault = "after" THEN "none" ELSE fault)
           user == [id |-> nextId + 1, email |-> ToLowerCase(req[b].email),
                    name |-> NameOrNull(req[b].name)]
           token == CreateToken([userId |-> user.id, email |-> user.email], now,
                                now)
       IN  /\ users' = r.users
           /\ subscriptions' = r.subscriptions
           /\ IF r.raised
              THEN /\ Answer(b, Json(ErrorBody("An error occurred during registration"),
                                     500, NoSetCookie),
                             [op |-> "signup", path |-> "create-raised",
                              fault |-> r.code])
                   /\ UNCHANGED nextId
              ELSE IF fault = "after"
              THEN /\ Answer(b, Json(ErrorBody("An error occurred during registration"),
                                     500, NoSetCookie),
                             [op |-> "signup", path |-> "issue-raised",
                              fault |-> "JWSInvalid"])
                   /\ nextId' = nextId + 1
              ELSE /\ Answer(b, Json([message |-> "Account created successfully",
                                      user |-> user],
                                     201, SetCookie(SetAuthCookie(token, now))),
                             [op |-> "signup", path |-> "created",
                              fault |-> "none"])
                   /\ nextId' = nextId + 1
    /\ UNCHANGED <<now, ticks, served, config, ownedRows, pwVars, tokVars>>

\* ----------------------------------------------------------------- login
\* Faulty variant: an unknown email is reported as such
LoginNoUserResponse_Distinct ==
    Json(ErrorBody("No account found with this email"), 404, NoSetCookie)

\* login route lines 48-54: if (!user) return 401 (generic message)
LoginNoUserResponse ==
    Json(ErrorBody("Invalid email or password"), 401, NoSetCookie)

\* Faulty variant: a rejected password also ends the browser's session
LoginBadPasswordResponse_ClearsCookie ==
    Json(ErrorBody("Invalid email or password"), 401, DeleteCookie)

\* login route lines 59-64: if (!isValidPassword) return 401
LoginBadPasswordResponse ==
    Json(ErrorBody("Invalid email or password"), 401, NoSetCookie)

\* login route lines 23-54: parse, validate, look the user up
LoginLookup(b, email, password, fault) ==
    /\ req[b] = IDLE
    /\ served < MaxRequests
    /\ served' = served + 1
    /\ UNCHANGED <<users, subscriptions, nextId, now, ticks, config, ownedRows, pwVars, tokVars>>
    /\ IF email = Str_empty \/ password = ""
       THEN Answer(b, Json(ErrorBody("Email and password are required"), 400,
                           NoSetCookie),
                   [op |-> "login", path |-> "missing", fault |-> "none"])
       ELSE IF fault # "none"
       THEN Answer(b, Json(ErrorBody("An error occurred during login"), 500,
                           NoSetCookie),
                   [op |-> "login", path |-> "lookup-raised",
                    fault |-> "P1001"])
       ELSE IF FindUniqueByEmail(ToLowerCase(email)) = NULL
       THEN Answer(b, LoginNoUserResponse,
                   [op |-> "login", path |-> "nouser", fault |-> "none"])
       ELSE /\ req' = [req EXCEPT ![b] =
                        [op |-> "login", pc |-> "compare", email |-> email,
                         password |-> password,
                         user |-> FindUniqueByEmail(ToLowerCase(email))]]
            /\ UNCHANGED <<jar, kept, resp, last>>

\* Faulty variant: the token carries the email typed in the request
LoginFinish_TokenRequestEmail(b) ==
    /\ req[b].op = "login"
    /\ UNCHANGED <<users, subscriptions, nextId, now, ticks, served, config, ownedRows, pwVars,
                   tokVars>>
    /\ LET user == req[b].user
           token == CreateToken([userId |-> user.id, email |-> req[b].email],
                                now, now)
       IN  IF ~ComparePasswords(req[b].password, user.password)
           THEN Answer(b, LoginBadPasswordResponse,
                       [op |-> "login", path |-> "badpw", fault |-> "none"])
           ELSE Answer(b, Json([message |-> "Login successful",
                                user |-> PublicUser(user)],
                               200, SetCookie(SetAuthCookie(token, now))),
                       [op |-> "login", path |-> "ok", fault |-> "none",
                        email |-> req[b].email])

\* Faulty variant: the password is not compared with the stored hash
LoginFinish_NoCompare(b) ==
    /\ req[b].op = "login"
    /\ UNCHANGED <<users, subscriptions, nextId, now, ticks, served, config, ownedRows, pwVars,
                   tokVars>>
    /\ LET user == req[b].user
           token == CreateToken([userId |-> user.id, email |-> user.email], now,
                                now)
       IN  Answer(b, Json([message |-> "Login successful",
                           user |-> PublicUser(user)],
                          200, SetCookie(SetAuthCookie(token, now))),
                  [op |-> "login", path |-> "ok", fault |-> "none",
                   email |-> req[b].email])

\* login route lines 56-86: compare passwords, token, cookie, 200
LoginFinish(b) ==
    /\ req[b].op = "login"
    /\ UNCHANGED <<users, subscriptions, nextId, now, ticks, served, config, ownedRows, pwVars,
                   tokVars>>
    /\ LET user == req[b].user
           token == CreateToken([userId |-> user.id, email |-> user.email], now,
                                now)
       IN  IF ~ComparePasswords(req[b].password, user.password)
           THEN Answer(b, LoginBadPasswordResponse,
                       [op |-> "login", path |-> "badpw", fault |-> "none"])
           ELSE Answer(b, Json([message |-> "Login successful",
                                user |-> PublicUser(user)],
                               200, SetCookie(SetAuthCookie(token, now))),
                       [op |-> "login", path |-> "ok", fault |-> "none",
                        email |-> req[b].email])

\* Tokens a client can put in the Cookie header besides its jar's cookie:
\* a retained copy, forgeries under keys it knows, damaged tokens
AttackerKeys == {"attacker-key", FallbackSecret}

ForgedPayload == [userId |-> 1, email |-> Str_aAtB, iat |-> now,
                  exp |-> now + TOKEN_EXPIRY]

CraftedTokens(b) ==
    {[header |-> [alg |-> "HS256"], payload |-> ForgedPayload,
      signature |-> Sign(k, [alg |-> "HS256"], ForgedPayload)] :
        k \in AttackerKeys}
    \cup {[header |-> [alg |-> "none"], payload |-> ForgedPayload,
           signature |-> NULL]}
    \cup {[header |-> [alg |-> "HS256"], payload |-> ForgedPayload]}
    \cup (IF kept[b] = NULL THEN {}
          ELSE {kept[b],
                [kept[b] EXCEPT !.payload.exp = @ + TOKEN_EXPIRY]})

\* ---------------------------------------------------------------- logout
\* Faulty variant: a logout revokes every issued token by changing the key
Logout_RotatesSecret(b, cookieValue) ==
    /\ req[b] = IDLE
    /\ served < MaxRequests
    /\ served' = served + 1
    /\ envJwtSecret' = "rotated-at-logout"
    /\ UNCHANGED <<users, subscriptions, nextId, now, ticks, nodeEnv,
                   envJwtExpiresIn, ownedRows, pwVars, tokVars>>
    /\ Answer(b, Json([message |-> "Logged out successfully"], 200,
                      DeleteCookie),
              [op |-> "logout", path |-> "ok",
               cookie |-> TokenClass(cookieValue, now)])

\* Faulty variant: every logout deactivates the stored Subscriptions
Logout_Deactivates(b, cookieValue) ==
    /\ req[b] = IDLE
    /\ served < MaxRequests
    /\ served' = served + 1
    /\ subscriptions' = {[s EXCEPT !.isActive = FALSE] : s \in subscriptions}
    /\ UNCHANGED <<users, nextId, now, ticks, config, ownedRows, pwVars, tokVars>>
    /\ Answer(b, Json([message |-> "Logged out successfully"], 200,
                      DeleteCookie),
              [op |-> "logout", path |-> "ok",
               cookie |-> TokenClass(cookieValue, now)])

\* Faulty variant: the route answers 200 without deleting the cookie
Logout_KeepsCookie(b, cookieValue) ==
    /\ req[b] = IDLE
    /\ served < MaxRequests
    /\ served' = served + 1
    /\ UNCHANGED <<users, subscriptions, nextId, now, ticks, config, ownedRows, pwVars, tokVars>>
    /\ Answer(b, Json([message |-> "Logged out successfully"], 200,
                      NoSetCookie),
              [op |-> "logout", path |-> "ok",
               cookie |-> TokenClass(cookieValue, now)])

\* logout route: try { clearAuthCookie(); 200 } catch { 500 }
Logout(b, cookieValue) ==
    /\ req[b] = IDLE
    /\ served < MaxRequests
    /\ served' = served + 1
    /\ UNCHANGED <<users, subscriptions, nextId, now, ticks, config, ownedRows, pwVars, tokVars>>
    /\ LET r == ClearAuthCookie(cookieValue)
       IN  IF r.raised
           THEN Answer(b, Json(ErrorBody("An error occurred during logout"),
                               500, NoSetCookie),
                       [op |-> "logout", path |-> "raised",
                        cookie |-> TokenClass(cookieValue, now)])
           ELSE Answer(b, Json([message |-> "Logged out successfully"], 200,
                               DeleteCookie),
                       [op |-> "logout", path |-> "ok",
                        cookie |-> TokenClass(cookieValue, now)])

\* -------------------------------------------------------------------- me
\* me route: getCurrentUser, findUnique by id with subscription, 200/401/404
\* observed.cookie / observed.rowExists are the observer's own judgement of
\* the presented token and of storage at the instant of the request
Me(b, cookieValue, fault) ==
    /\ req[b] = IDLE
    /\ served < MaxRequests
    /\ served' = served + 1
    /\ UNCHANGED <<users, subscriptions, nextId, now, ticks, config, ownedRows, pwVars, tokVars>>
    /\ LET auth == GetCurrentUser(cookieValue, now)
           authUser == auth.value
           row == FindUniqueById(authUser.userId)
           user == [id |-> row.id, email |-> row.email, name |-> row.name,
                    subscription |-> SubscriptionOf(row.id)]
           class == TokenClass(cookieValue, now)
           rowExists == /\ cookieValue # NULL
                        /\ WellFormed(cookieValue)
                        /\ \E u \in users : u.id = cookieValue.payload.userId
           Observed(path, queried) ==
               [op |-> "me", path |-> path, cookie |-> class,
                rowExists |-> rowExists, queried |-> queried]
       IN  IF auth.raised
           THEN Answer(b, Json(ErrorBody("An error occurred"), 500, NoSetCookie),
                       Observed("auth-raised", FALSE))
           ELSE IF authUser = NULL
           THEN Answer(b, Json(ErrorBody("Not authenticated"), 401, NoSetCookie),
                       Observed("unauthenticated", FALSE))
           ELSE IF fault # "none"
           THEN Answer(b, Json(ErrorBody("An error occurred"), 500, NoSetCookie),
                       Observed("query-raised", TRUE))
           ELSE IF row = NULL
           THEN Answer(b, Json(ErrorBody("User not found"), 404, NoSetCookie),
                       Observed("notfound", TRUE))
           ELSE Answer(b, Json([user |-> user], 200, NoSetCookie),
                       Observed("ok", TRUE))

\* ----------------------------------------------------------------- clock
\* The instants at which the clock is observed: the last second of a token
\* issued at 0, then second by second across its expiration
TickStep(n) == IF n = 0 THEN TOKEN_EXPIRY - 1 ELSE 1

Tick ==
    /\ ticks < MaxTicks
    /\ now' = now + TickStep(ticks)
    /\ ticks' = ticks + 1
    /\ UNCHANGED <<users, subscriptions, nextId, served, config, ownedRows, pwVars, jar, kept,
                   req, resp, last, tokVars>>

\* ------------------------------------------------------------ the system
NONE == [op |-> "none"]

\* The state at process start, JWT_EXPIRES_IN being one of expiresInValues
Boot(expiresInValues) ==
    /\ users = {}
    /\ subscriptions = {}
    /\ cases = {}
    /\ integrations = {}
    /\ envJwtExpiresIn \in expiresInValues
    /\ secrets = {}
    /\ compared = NONE
    /\ nextId = 0
    /\ now = 0
    /\ ticks = 0
    /\ served = 0
    /\ envJwtSecret \in {"", "configured-secret"}
    /\ nodeEnv \in {"production", "development"}
    /\ jar = [b \in Browsers |-> NULL]
    /\ kept = [b \in Browsers |-> NULL]
    /\ req = [b \in Browsers |-> IDLE]
    /\ resp = [browser |-> 0, status |-> 0, body |-> NULL, setCookie |-> "none"]
    /\ last = [browser |-> 0, run |-> NONE]
    /\ tok = NULL
    /\ tokKind = [kind |-> "none"]
    /\ tokResult = NONE

\* JWT_EXPIRES_IN unset
Init == Boot({""})

Next ==
    \/ \E b \in Browsers, body \in SignupBodies, f \in {"none", "before"} :
          SignupCheck(b, body.name, body.email, body.password, f)
    \/ \E b \in Browsers, s \in Salts, f \in RunFaults : SignupCreate(b, s, f)
    \/ \E b \in Browsers, body \in LoginBodies, f \in {"none", "before"} :
          LoginLookup(b, body.email, body.password, f)
    \/ \E b \in Browsers : LoginFinish(b)
    \/ \E b \in Browsers :
          \/ Logout(b, CookieSent(jar[b], now))
          \/ \E t \in CraftedTokens(b) : Logout(b, t)
    \/ \E b \in Browsers, f \in {"none", "before"} :
          \/ Me(b, CookieSent(jar[b], now), f)
          \/ \E t \in CraftedTokens(b) : Me(b, t, f)
    \/ \E id \in 1..MaxIds : DeleteUser(id)
    \/ Tick

Spec == Init /\ [][Next]_vars

\* ------------------------------------------------- the token functions
\* createToken / verifyToken exercised on their own: tokens are issued,
\* forged under any key, damaged, and verified at any instant
TokIdentities ==
    {[userId |-> 1, email |-> Str_aAtB], [userId |-> 2, email |-> Str_xAtY]}

Keys == {FallbackSecret, "configured-secret", "attacker-key"}

TokSteps == {1, TOKEN_EXPIRY - 1, TOKEN_EXPIRY}

TokIssue(identity) ==
    /\ tok' = CreateToken(identity, now, now)
    /\ tokKind' = [kind |-> "issued", identity |-> identity]
    /\ tokResult' = NONE
    /\ UNCHANGED <<users, subscriptions, nextId, now, ticks, served, config, ownedRows, pwVars,
                   jar, kept, req, resp, last>>

\* A token built by someone else: any key, any identity, any expiration
TokForge(key, identity, lifetime) ==
    /\ LET header == [alg |-> "HS256"]
           claims == [userId |-> identity.userId, email |-> identity.email,
                      iat |-> now, exp |-> now + lifetime]
       IN  tok' = [header |-> header, payload |-> claims,
                   signature |-> Sign(key, header, claims)]
    /\ tokKind' = [kind |-> "forged", identity |-> identity]
    /\ tokResult' = NONE
    /\ UNCHANGED <<users, subscriptions, nextId, now, ticks, served, config, ownedRows, pwVars,
                   jar, kept, req, resp, last>>

\* The payload of an issued token is edited, its signature kept
TokTamper(identity) ==
    /\ tokKind.kind = "issued"
    /\ tokKind.identity # identity
    /\ tok' = [tok EXCEPT !.payload.userId = identity.userId,
                          !.payload.email = identity.email]
    /\ tokKind' = [kind |-> "tampered", identity |-> identity]
    /\ tokResult' = NONE
    /\ UNCHANGED <<users, subscriptions, nextId, now, ticks, served, config, ownedRows, pwVars,
                   jar, kept, req, resp, last>>

\* The signature segment is cut off
TokTruncate ==
    /\ tok # NULL
    /\ WellFormed(tok)
    /\ tok' = [header |-> tok.header, payload |-> tok.payload]
    /\ tokKind' = [kind |-> "malformed", identity |-> tokKind.identity]
    /\ tokResult' = NONE
    /\ UNCHANGED <<users, subscriptions, nextId, now, ticks, served, config, ownedRows, pwVars,
                   jar, kept, req, resp, last>>

\* verifyToken(tok) at the current instant
TokVerify ==
    /\ tok # NULL
    /\ tokResult' = [at |-> now, class |-> TokenClass(tok, now),
                     outcome |-> VerifyToken(tok, now)]
    /\ UNCHANGED <<users, subscriptions, nextId, now, ticks, served, config, ownedRows, pwVars,
                   jar, kept, req, resp, last, tok, tokKind>>

TokTick(d) ==
    /\ ticks < MaxTicks
    /\ now' = now + d
    /\ ticks' = ticks + 1
    /\ UNCHANGED <<users, subscriptions, nextId, served, config, ownedRows, pwVars, jar, kept,
                   req, resp, last, tokVars>>

NextToken ==
    \/ \E i \in TokIdentities : TokIssue(i)
    \/ \E k \in Keys, i \in TokIdentities,
          l \in {TOKEN_EXPIRY, 52 * TOKEN_EXPIRY} : TokForge(k, i, l)
    \/ \E i \in TokIdentities : TokTamper(i)
    \/ TokTruncate
    \/ TokVerify
    \/ \E d \in TokSteps : TokTick(d)

SpecToken == Init /\ [][NextToken]_vars

\* ------------------------------------------------ the relational schema
\* The tables exercised on their own: Accounts are inserted with their
\* Subscription, Cases and Integrations are inserted for any owner id, and
\* Accounts are deleted
StoredEmails == {Str_aAtB, Str_xAtY}

RowIds == 1..MaxRows

\* INSERT INTO "cases" (id, ..., "userId"): cases_pkey, cases_userId_fkey
CaseInsert(id, userId) ==
    IF \E c \in cases : c.id = id
    THEN [raised |-> TRUE, code |-> "P2002", cases |-> cases]
    ELSE IF ~\E u \in users : u.id = userId
    THEN [raised |-> TRUE, code |-> "P2003", cases |-> cases]
    ELSE [raised |-> FALSE, code |-> "",
          cases |-> cases \cup {[id |-> id, userId |-> userId,
                                 status |-> "PENDING"]}]

\* INSERT INTO "integrations" (id, ..., "userId"): integrations_pkey,
\* integrations_userId_fkey
IntegrationInsert(id, userId) ==
    IF \E i \in integrations : i.id = id
    THEN [raised |-> TRUE, code |-> "P2002", integrations |-> integrations]
    ELSE IF ~\E u \in users : u.id = userId
    THEN [raised |-> TRUE, code |-> "P2003", integrations |-> integrations]
    ELSE [raised |-> FALSE, code |-> "",
          integrations |-> integrations \cup {[id |-> id, userId |-> userId,
                                               isActive |-> TRUE]}]

StoreUser(email) ==
    /\ nextId < MaxIds
    /\ LET r == UserCreate(nextId + 1, email, HashPassword("longenough1", 1),
                           NULL, "none")
       IN  /\ users' = r.users
           /\ subscriptions' = r.subscriptions
           /\ nextId' = IF r.raised THEN nextId ELSE nextId + 1
           /\ last' = [browser |-> 0,
                       run |-> [op |-> "insert-user", code |-> r.code]]
    /\ UNCHANGED <<now, ticks, served, config, ownedRows, pwVars, jar, kept,
                   req, resp, tokVars>>

StoreCase(id, userId) ==
    /\ LET r == CaseInsert(id, userId)
       IN  /\ cases' = r.cases
           /\ last' = [browser |-> 0,
                       run |-> [op |-> "insert-case", code |-> r.code]]
    /\ UNCHANGED <<users, subscriptions, integrations, nextId, now, ticks,
                   served, config, pwVars, jar, kept, req, resp, tokVars>>

StoreIntegration(id, userId) ==
    /\ LET r == IntegrationInsert(id, userId)
       IN  /\ integrations' = r.integrations
           /\ last' = [browser |-> 0,
                       run |-> [op |-> "insert-integration", code |-> r.code]]
    /\ UNCHANGED <<users, subscriptions, cases, nextId, now, ticks, served,
                   config, pwVars, jar, kept, req, resp, tokVars>>

\* DELETE FROM "users" WHERE id = ...; the observer counts the rows that
\* went with the Account
StoreDelete(id) ==
    /\ \E u \in users : u.id = id
    /\ LET r == DeleteCascade(id)
       IN  /\ users' = r.users
           /\ subscriptions' = r.subscriptions
           /\ cases' = r.cases
           /\ integrations' = r.integrations
           /\ last' = [browser |-> 0,
                       run |-> [op |-> "delete", id |-> id,
                                cases |-> Cardinality(cases \ r.cases),
                                integrations |->
                                    Cardinality(integrations \ r.integrations),
                                subscriptions |->
                                    Cardinality(subscriptions
                                                \ r.subscriptions)]]
    /\ UNCHANGED <<nextId, now, ticks, served, config, pwVars, jar, kept,
                   req, resp, tokVars>>

NextStorage ==
    \/ \E e \in StoredEmails : StoreUser(e)
    \/ \E id \in RowIds, owner \in 1..MaxIds : StoreCase(id, owner)
    \/ \E id \in RowIds, owner \in 1..MaxIds : StoreIntegration(id, owner)
    \/ \E id \in 1..MaxIds : StoreDelete(id)

SpecStorage == Init /\ [][NextStorage]_vars

\* ------------------------------------------------ the password functions
\* hashPassword / comparePasswords exercised on their own: passwords are
\* hashed, each call with a salt no earlier call used, and any password is
\* compared with any secret produced
Pw72 == "aaaaaaaaaaaaaaaaaaaaaaaaaaaaaaaaaaaaaaaaaaaaaaaaaaaaaaaaaaaaaaaaaaaaaaaa"

Passwords == {"longenough1", "longenough2", "short", Pw72 \o "1", Pw72 \o "2"}

PwSalts == 1..MaxSecrets

\* secret = await hashPassword(q); the secret is kept with the password it
\* was made from
PwHash(q, salt) ==
    /\ Cardinality(secrets) < MaxSecrets
    /\ \A s \in secrets : s.secret.salt # salt
    /\ secrets' = secrets \cup {[from |-> q, secret |-> HashPassword(q, salt)]}
    /\ UNCHANGED <<users, subscriptions, nextId, now, ticks, served, config,
                   ownedRows, jar, kept, req, resp, last, tokVars, compared>>

\* await comparePasswords(p, secret)
PwCompare(p, s) ==
    /\ s \in secrets
    /\ compared' = [password |-> p, from |-> s.from,
                    outcome |-> ComparePasswords(p, s.secret)]
    /\ UNCHANGED <<users, subscriptions, nextId, now, ticks, served, config,
                   ownedRows, jar, kept, req, resp, last, tokVars, secrets>>

NextPassword ==
    \/ \E q \in Passwords, salt \in PwSalts : PwHash(q, salt)
    \/ \E p \in Passwords, s \in secrets : PwCompare(p, s)

SpecPassword == Init /\ [][NextPassword]_vars

\* ----------------------------------------------- the session's two clocks
\* The end of a login or signup run, second by second: createToken reads
\* the clock for iat and again for exp, the response then travels, and the
\* browser counts the cookie's max-age from the instant it receives it.
\* JWT_EXPIRES_IN is set to any of the values below or left unset.
JwtExpiresInValues == {"", "7d", "1h"}

\* The number of seconds a time span string stands for
Secs(span) ==
    CASE span = "7d" -> 7 * 24 * 60 * 60
      [] span = "1h" -> 60 * 60

\* The token lifetime the environment configuration asks for
ConfiguredLifetime ==
    IF envJwtExpiresIn = "" THEN Secs("7d") ELSE Secs(envJwtExpiresIn)

\* Seconds that may pass between two consecutive clock readings of a run
Skews == {0, 1}

\* The Account the runs log in
SessIdentities == {[userId |-> 1, email |-> Str_aAtB]}

\* Clock advances between runs: a second, or up to the eve of expiration
SessSteps == {1, TOKEN_EXPIRY - 1}

\* const token = await createToken({ userId, email })
SessIssue(identity, d) ==
    /\ ticks + d <= MaxTicks
    /\ tok' = CreateToken(identity, now, now + d)
    /\ tokKind' = [kind |-> "issued", identity |-> identity]
    /\ tokResult' = NONE
    /\ now' = now + d
    /\ ticks' = ticks + d
    /\ UNCHANGED <<users, subscriptions, nextId, served, config, ownedRows,
                   pwVars, jar, kept, req, resp, last>>

\* await setAuthCookie(token); return response -- received by the browser
SessDeliver(b, d) ==
    /\ tokKind.kind = "issued"
    /\ ticks + d <= MaxTicks
    /\ jar' = [jar EXCEPT ![b] = SetAuthCookie(tok, now + d)]
    /\ tokKind' = [kind |-> "delivered", identity |-> tokKind.identity]
    /\ now' = now + d
    /\ ticks' = ticks + d
    /\ UNCHANGED <<users, subscriptions, nextId, served, config, ownedRows,
                   pwVars, kept, req, resp, last, tok, tokResult>>

NextSession ==
    \/ \E i \in SessIdentities, d \in Skews : SessIssue(i, d)
    \/ \E b \in Browsers, d \in Skews : SessDeliver(b, d)
    \/ \E d \in SessSteps : TokTick(d)

SpecSession == Boot(JwtExpiresInValues) /\ [][NextSession]_vars

\* ------------------------------------------- verifyToken beside storage
\* verifyToken called again and again while Accounts come and go: each
\* result is kept with the storage it was computed beside and, when the
\* previous call was on the same token at the same instant, with that call
VerVerify ==
    /\ tok # NULL
    /\ tokResult' =
          [at |-> now, class |-> TokenClass(tok, now),
           outcome |-> VerifyToken(tok, now), storage |-> users,
           before |-> IF tokResult # NONE /\ tokResult.at = now
                      THEN [outcome |-> tokResult.outcome,
                            storage |-> tokResult.storage]
                      ELSE NONE]
    /\ UNCHANGED <<users, subscriptions, nextId, now, ticks, served, config,
                   ownedRows, pwVars, jar, kept, req, resp, last, tok,
                   tokKind>>

NextVerify ==
    \/ \E i \in TokIdentities : TokIssue(i)
    \/ \E i \in TokIdentities : TokTamper(i)
    \/ TokTruncate
    \/ VerVerify
    \/ \E e \in StoredEmails : StoreUser(e)
    \/ \E id \in 1..MaxIds : StoreDelete(id)
    \/ \E d \in TokSteps : TokTick(d)

SpecVerify == Init /\ [][NextVerify]_vars

\* ------------------------------------------- runs that differ in a hash
\* The state of the run that differs from this one only in the stored
\* password hash of Account id: the same requests, another password or salt
\* given to hashPassword at its signup
OtherHash == HashPassword("another-secret", 2)

Rehash(id) ==
    /\ \E u \in users : u.id = id /\ u.password # OtherHash
    /\ users' = {IF u.id = id THEN [u EXCEPT !.password = OtherHash] ELSE u :
                    u \in users}
    /\ UNCHANGED <<subscriptions, nextId, now, ticks, served, config,
                   ownedRows, pwVars, jar, kept, req, resp, last, tokVars>>

\* What each handler answers in the current state: status, body and the
\* payload of the token it issues (NULL when it issues none)
Reply(status, body, payload) ==
    [status |-> status, body |-> body, payload |-> payload]

\* signup route lines 31-66; status 0: the run goes on to the insert
SignupCheckAnswer(body, fault) ==
    IF body.email = Str_empty \/ body.password = ""
    THEN Reply(400, ErrorBody("Email and password are required"), NULL)
    ELSE IF ~EmailRegexTest(body.email)
    THEN Reply(400, ErrorBody("Invalid email format"), NULL)
    ELSE IF Len(body.password) < 8
    THEN Reply(400, ErrorBody("Password must be at least 8 characters"), NULL)
    ELSE IF fault # "none"
    THEN Reply(500, ErrorBody("An error occurred during registration"), NULL)
    ELSE IF FindUniqueByEmail(ToLowerCase(body.email)) # NULL
    THEN Reply(409, ErrorBody("An account with this email already exists"),
               NULL)
    ELSE Reply(0, NULL, NULL)

\* signup route lines 68-122, for the request r in flight
SignupCreateAnswer(r, salt) ==
    LET c == UserCreate(nextId + 1, ToLowerCase(r.email),
                        HashPassword(r.password, salt), NameOrNull(r.name),
                        "none")
        user == [id |-> nextId + 1, email |-> ToLowerCase(r.email),
                 name |-> NameOrNull(r.name)]
    IN  IF c.raised
        THEN Reply(500, ErrorBody("An error occurred during registration"),
                   NULL)
        ELSE Reply(201, [message |-> "Account created successfully",
                         user |-> user],
                   CreateToken([userId |-> user.id, email |-> user.email],
                               now, now).payload)

\* login route lines 29-54; status 0: the run goes on to the comparison
LoginLookupAnswer(body, fault) ==
    IF body.email = Str_empty \/ body.password = ""
    THEN Reply(400, ErrorBody("Email and password are required"), NULL)
    ELSE IF fault # "none"
    THEN Reply(500, ErrorBody("An error occurred during login"), NULL)
    ELSE IF FindUniqueByEmail(ToLowerCase(body.email)) = NULL
    THEN Reply(401, ErrorBody("Invalid email or password"), NULL)
    ELSE Reply(0, NULL, NULL)

\* login route lines 56-86, for the request r in flight
LoginFinishAnswer(r) ==
    IF ~ComparePasswords(r.password, r.user.password)
    THEN Reply(401, ErrorBody("Invalid email or password"), NULL)
    ELSE Reply(200, [message |-> "Login successful",
                     user |-> PublicUser(r.user)],
               CreateToken([userId |-> r.user.id, email |-> r.user.email],
                           now, now).payload)

\* me route, for the cookie browser b sends
MeAnswer(b, fault) ==
    LET auth == GetCurrentUser(CookieSent(jar[b], now), now)
        row == FindUniqueById(auth.value.userId)
    IN  IF auth.raised THEN Reply(500, ErrorBody("An error occurred"), NULL)
        ELSE IF auth.value = NULL
        THEN Reply(401, ErrorBody("Not authenticated"), NULL)
        ELSE IF fault # "none"
        THEN Reply(500, ErrorBody("An error occurred"), NULL)
        ELSE IF row = NULL THEN Reply(404, ErrorBody("User not found"), NULL)
        ELSE Reply(200, [user |-> [id |-> row.id, email |-> row.email,
                                   name |-> row.name,
                                   subscription |-> SubscriptionOf(row.id)]],
                   NULL)

\* logout route
LogoutAnswer(b) ==
    IF ClearAuthCookie(CookieSent(jar[b], now)).raised
    THEN Reply(500, ErrorBody("An error occurred during logout"), NULL)
    ELSE Reply(200, [message |-> "Logged out successfully"], NULL)

NextHash ==
    \/ \E b \in Browsers, body \in SignupBodies, f \in {"none", "before"} :
          SignupCheck(b, body.name, body.email, body.password, f)
    \/ \E b \in Browsers, s \in Salts : SignupCreate(b, s, "none")
    \/ \E b \in Browsers, body \in LoginBodies, f \in {"none", "before"} :
          LoginLookup(b, body.email, body.password, f)
    \/ \E b \in Browsers : LoginFinish(b)
    \/ \E b \in Browsers : Logout(b, CookieSent(jar[b], now))
    \/ \E b \in Browsers, f \in {"none", "before"} :
          Me(b, CookieSent(jar[b], now), f)
    \/ \E id \in 1..MaxIds : Rehash(id)

SpecHash == Init /\ [][NextHash]_vars

\* ================================================================ claims
UpperChars == {"A", "B", "X"}

SignupValidated == last.run.path \in {"exists", "created", "create-raised"}

\* C1: in every reachable state every Account has exactly one Subscription
\* and every Subscription belongs to an existing Account, whatever signups
\* ran, interleaved or failed at their insert.
C1_AccountHasOneSubscription ==
    /\ \A u \in users :
          Cardinality({sub \in subscriptions : sub.userId = u.id}) = 1
    /\ \A sub \in subscriptions : \E u \in users : u.id = sub.userId

\* C1 case: a signup's insert has just failed while an Account exists
C1_Witness ==
    /\ last.run.op = "signup"
    /\ last.run.path = "create-raised"
    /\ users # {}

\* C2 (as claimed): a signup that passes validation and meets no storage
\* fault is answered 201 or 409 -- of two requests for one normalized email
\* the one that does not create the Account is answered 409 Conflict.
C2_ValidSignupAnswered201Or409 ==
    (last.run.op = "signup" /\ SignupValidated /\ last.run.fault # "P1001")
        => resp.status \in {201, 409}

\* C3: no two Accounts share a stored email and every stored email is
\* lowercase, under any interleaving of signups.
C3_EmailsUniqueLowercase ==
    /\ \A u, v \in users : u.email = v.email => u = v
    /\ \A u \in users : \A i \in DOMAIN u.email : u.email[i] \notin UpperChars

\* C3 case: storage has just rejected a second insert of a registered email
C3_Witness ==
    /\ last.run.op = "signup"
    /\ last.run.fault = "P2002"
    /\ \E u \in users : u.email = Str_aAtB

\* C4: a login failing on an unknown email and a login failing on a wrong
\* password get the same response, 401 "Invalid email or password", and
\* neither sets a session cookie.
C4_LoginFailuresIndistinguishable ==
    (last.run.op = "login" /\ last.run.path \in {"nouser", "badpw"})
        => /\ resp.status = 401
           /\ resp.body = ErrorBody("Invalid email or password")
           /\ resp.setCookie = "none"

\* C4 case: a registered email was presented with a wrong password
C4_Witness ==
    /\ last.run.op = "login"
    /\ last.run.path = "badpw"
    /\ resp.status = 401

\* C5: verifyToken(createToken(I)) returns I's userId and email at every
\* instant before the expiration instant and null at every instant after it.
C5_IssuedTokenRoundTrip ==
    (tokKind.kind = "issued" /\ tokResult # NONE)
        => /\ ~tokResult.outcome.raised
           /\ tokResult.at < tok.payload.exp
                 => /\ tokResult.outcome.value # NULL
                    /\ tokResult.outcome.value.userId = tokKind.identity.userId
                    /\ tokResult.outcome.value.email = tokKind.identity.email
           /\ tokResult.at > tok.payload.exp
                 => tokResult.outcome.value = NULL

\* C5 case: an issued token was verified after its expiration instant
C5_Witness ==
    /\ tokKind.kind = "issued"
    /\ tokResult # NONE
    /\ tokResult.at > tok.payload.exp
    /\ tokResult.outcome.value = NULL

\* C6: a token signed with a secret other than the process's signing secret
\* is rejected (null) at every instant, whatever its payload and expiration.
C6_OtherSecretRejected ==
    (/\ tok # NULL
     /\ WellFormed(tok)
     /\ tok.signature.key # JWT_SECRET
     /\ tokResult # NONE)
        => tokResult.outcome = Return(NULL)

\* C6 case: an unexpired token forged under another key was verified
C6_Witness ==
    /\ tokKind.kind = "forged"
    /\ tok.signature.key # JWT_SECRET
    /\ tokResult # NONE
    /\ tokResult.at < tok.payload.exp
    /\ tokResult.outcome.value = NULL

\* C7: verifyToken never raises; a signature mismatch, a malformed token
\* and an expired token all yield the one value null.
C7_FailuresAllNull ==
    tokResult # NONE
        => /\ ~tokResult.outcome.raised
           /\ tokResult.class \in {"malformed", "badalg", "otherkey",
                                   "tampered", "expired"}
                 => tokResult.outcome = Return(NULL)

\* C7 case: a genuine token was verified once expired
C7_Witness ==
    /\ tokResult # NONE
    /\ tokResult.class = "expired"
    /\ tokResult.outcome = Return(NULL)

\* C8: GET /auth/me answers 401 exactly when there is no cookie or the
\* token fails verification, 404 when the token is valid and its Account
\* has no row, and 200 only when the token is valid and the row exists.
C8_MeStatus ==
    last.run.op = "me"
        => /\ resp.status = 401 <=> last.run.cookie # "valid"
           /\ (last.run.cookie = "valid" /\ ~last.run.rowExists
                 /\ last.run.path # "query-raised") => resp.status = 404
           /\ resp.status = 404
                 => (last.run.cookie = "valid" /\ ~last.run.rowExists)
           /\ resp.status = 200
                 => (last.run.cookie = "valid" /\ last.run.rowExists)

\* C8 case: a valid token whose Account row is gone was presented
C8_Witness ==
    /\ last.run.op = "me"
    /\ last.run.cookie = "valid"
    /\ ~last.run.rowExists
    /\ resp.status = 404

\* C9: with the cookie absent or its token failing verification,
\* getCurrentUser returns null without raising and GET /auth/me answers 401
\* without querying storage.
C9_UnauthenticatedNoQuery ==
    (last.run.op = "me" /\ last.run.cookie # "valid")
        => /\ last.run.path = "unauthenticated"
           /\ ~last.run.queried
           /\ resp.status = 401
           /\ resp.body = ErrorBody("Not authenticated")

\* C9 case: GET /auth/me without a cookie
C9_Witness ==
    /\ last.run.op = "me"
    /\ last.run.cookie = "absent"
    /\ resp.status = 401

\* C10: POST /auth/logout answers 200 in every state -- cookie present,
\* absent, invalid or expired -- and never an error status.
C10_LogoutAlways200 ==
    last.run.op = "logout"
        => /\ resp.status = 200
           /\ resp.setCookie = "delete"

\* C10 case: logout with no cookie in the jar
C10_Witness ==
    /\ last.run.op = "logout"
    /\ last.run.cookie = "absent"
    /\ resp.status = 200

\* C11: after a logout the browser holds no session cookie, and every
\* GET /auth/me sent with the browser's cookie jar from then until the next
\* successful login or signup is answered 401: a logout answered 200 leaves
\* the jar empty, an empty jar is filled only by a login answered 200 or a
\* signup answered 201 of that browser, and a GET /auth/me sent from an
\* empty jar is answered 401.
C11_LoggedOutMeIs401 ==
    [][\A b \in Browsers :
          /\ (/\ served' # served
              /\ last'.browser = b
              /\ last'.run.op = "logout"
              /\ resp'.status = 200) => jar'[b] = NULL
          /\ (jar[b] = NULL /\ jar'[b] # NULL)
                => /\ last'.browser = b
                   /\ \/ last'.run.op = "login" /\ resp'.status = 200
                      \/ last'.run.op = "signup" /\ resp'.status = 201
          /\ \A f \in {"none", "before"} :
                (jar[b] = NULL /\ Me(b, CookieSent(jar[b], now), f))
                    => resp'.status = 401]_vars

\* C11 case: a browser that signed up and logged out asks GET /auth/me
\* from its jar before the cookie would have expired
C11_Witness ==
    /\ \E b \in Browsers :
          /\ kept[b] # NULL
          /\ jar[b] = NULL
          /\ last.browser = b
          /\ now < kept[b].payload.exp
    /\ last.run.op = "me"
    /\ last.run.cookie = "absent"
    /\ resp.status = 401

FreeSummary == [tier |-> "FREE", csvUploadsThisMonth |-> 0, isActive |-> TRUE]

\* C12: a signup that creates its Account answers 201, the new Account has
\* the lowercased email and a Subscription with tier Free, usage 0, active,
\* the cookie set carries a verifying token binding the new id and the
\* stored email; and the GET /auth/me that follows from that jar (the row
\* still there, the cookie still held) returns that Account with that
\* Subscription summary.
C12_SignupThenMe ==
    [][\A b \in Browsers :
          /\ (/\ nextId' # nextId
              /\ last'.browser = b
              /\ req[b] # IDLE
              /\ last'.run.path = "created")
                => /\ resp'.status = 201
                   /\ resp'.setCookie = "set"
                   /\ resp'.body.user.id \notin {u.id : u \in users}
                   /\ resp'.body.user.email = ToLowerCase(req[b].email)
                   /\ \E u \in users' :
                         PublicUser(u) = resp'.body.user
                   /\ {[tier |-> sub.tier,
                         csvUploadsThisMonth |-> sub.csvUploadsThisMonth,
                         isActive |-> sub.isActive] :
                          sub \in {x \in subscriptions' :
                                     x.userId = resp'.body.user.id}}
                         = {FreeSummary}
                   /\ LET verified == VerifyToken(jar'[b].value, now')
                      IN  /\ ~verified.raised
                          /\ verified.value # NULL
                          /\ verified.value.userId = resp'.body.user.id
                          /\ verified.value.email = resp'.body.user.email
          /\ (/\ last.run.op = "signup"
              /\ last.browser = b
              /\ resp.status = 201
              /\ \E u \in users : u.id = resp.body.user.id
              /\ CookieSent(jar[b], now) # NULL
              /\ Me(b, CookieSent(jar[b], now), "none"))
                => /\ resp'.status = 200
                   /\ resp'.body =
                         [user |-> [id |-> resp.body.user.id,
                                    email |-> resp.body.user.email,
                                    name |-> resp.body.user.name,
                                    subscription |-> FreeSummary]]]_vars

\* C12 case: a signup typed with capitals, then GET /auth/me from the jar
C12_Witness ==
    /\ served = 2
    /\ last.run.op = "me"
    /\ last.run.path = "ok"
    /\ jar[last.browser] # NULL
    /\ jar[last.browser].value.payload.email = Str_aAtB
    /\ \E u \in users : u.email = Str_aAtB /\ u.name = NULL
    /\ resp.status = 200
    /\ resp.body.user.subscription = FreeSummary

\* What C13 says of the run that ends a login whose row was found: 200 with
\* the cookie and a token binding the row's id and email exactly when the
\* password verifies against the row's hash, 401 without a cookie otherwise
LoginFinishAsClaimed(b) ==
    /\ req[b].user.email = ToLowerCase(req[b].email)
    /\ IF ComparePasswords(req[b].password, req[b].user.password)
       THEN /\ resp'.status = 200
            /\ resp'.setCookie = "set"
            /\ jar'[b].value.payload.userId = req[b].user.id
            /\ jar'[b].value.payload.email = req[b].user.email
            /\ resp'.body.user = PublicUser(req[b].user)
       ELSE /\ resp'.status = 401
            /\ resp'.setCookie = "none"
            /\ jar'[b] = jar[b]

IllFormedEmails == {Str_noDot, Str_space}

\* Passwords of the request bodies with fewer than 8 characters
ShortPasswords == {"short"}

\* C14: a signup whose email or password is missing, whose email is not
\* well-formed or whose password has fewer than 8 characters is answered
\* 400 in the same run and creates no Account, no Subscription and no
\* cookie, whether or not the email is registered and whatever storage
\* would have answered.
C14_InvalidSignupIs400 ==
    [][\A b \in Browsers, body \in SignupBodies, f \in {"none", "before"} :
          (/\ req'[b] # IDLE \/ (last'.browser = b /\ last'.run.op = "signup")
           /\ \/ body.email = Str_empty
              \/ body.password = ""
              \/ body.email \in IllFormedEmails
              \/ body.password \in ShortPasswords
           /\ SignupCheck(b, body.name, body.email, body.password, f))
              => /\ req'[b] = IDLE
                 /\ resp'.status = 400
                 /\ resp'.setCookie = "none"
                 /\ jar' = jar
                 /\ users' = users
                 /\ subscriptions' = subscriptions]_vars

\* C14 case: a signup for a registered email with a 5-character password
\* has been answered 400
C14_Witness ==
    /\ last.run.op = "signup"
    /\ last.run.path = "short"
    /\ resp.status = 400
    /\ \E u \in users : u.email = Str_aAtB

\* C15: emails differing only in letter case denote one Account: with
\* a@b.c registered and storage answering, a valid signup for A@b.c is
\* answered 409 and creates nothing, a login for A@b.c finds the Account
\* registered as a@b.c, and with the right password it is answered 200 for
\* that Account, its token binding that Account's id and stored email.
C15_CaseVariantsSameAccount ==
    [][\A b \in Browsers :
          /\ \A body \in SignupBodies :
                (/\ body.email = Str_AAtB
                 /\ body.password \notin ShortPasswords \cup {""}
                 /\ \E u \in users : u.email = Str_aAtB
                 /\ SignupCheck(b, body.name, body.email, body.password,
                                "none"))
                    => /\ req'[b] = IDLE
                       /\ resp'.status = 409
                       /\ users' = users
          /\ \A body \in LoginBodies :
                (/\ body.email = Str_AAtB
                 /\ body.password # ""
                 /\ \E u \in users : u.email = Str_aAtB
                 /\ LoginLookup(b, body.email, body.password, "none"))
                    => /\ req'[b] # IDLE
                       /\ req'[b].user \in users
                       /\ req'[b].user.email = Str_aAtB
          /\ (/\ LoginFinish(b)
              /\ req[b].email = Str_AAtB
              /\ ComparePasswords(req[b].password, req[b].user.password))
                 => /\ resp'.status = 200
                    /\ resp'.body.user = PublicUser(req[b].user)
                    /\ resp'.body.user.email = Str_aAtB
                    /\ jar'[b].value.payload.userId = req[b].user.id
                    /\ jar'[b].value.payload.email = Str_aAtB]_vars

\* C15 case: a login typed A@b.c has been answered 200 for the Account
\* registered as a@b.c
C15_Witness ==
    /\ last.run.op = "login"
    /\ last.run.path = "ok"
    /\ last.run.email = Str_AAtB
    /\ resp.status = 200
    /\ resp.body.user.email = Str_aAtB

\* C16: in every state reached by inserting rows and deleting Accounts,
\* every Case, every Integration and every Subscription references an
\* existing Account: a deleted Account takes its rows with it in the same
\* step.
C16_OwnedRowsHaveOwner ==
    /\ \A c \in cases : \E u \in users : u.id = c.userId
    /\ \A i \in integrations : \E u \in users : u.id = i.userId
    /\ \A sub \in subscriptions : \E u \in users : u.id = sub.userId

\* C16 case: an Account owning a Case, an Integration and its Subscription
\* has just been deleted while another Account keeps its own rows
C16_Witness ==
    /\ last.run.op = "delete"
    /\ last.run.cases >= 1
    /\ last.run.integrations >= 1
    /\ last.run.subscriptions = 1
    /\ cases # {}
    /\ subscriptions # {}
    /\ \A u \in users : u.id # last.run.id

\* C17 (as claimed): for all passwords P, Q and every secret S made by
\* hashPassword(Q), comparePasswords(P, S) is true iff P = Q; two secrets
\* made from one password differ and both verify it, and no secret
\* verifies a password other than the one it was made from.
C17_CompareIffSamePassword ==
    /\ compared # NONE
          => (compared.outcome <=> compared.password = compared.from)
    /\ \A s \in secrets : ComparePasswords(s.from, s.secret)
    /\ \A s1, s2 \in secrets : s1 # s2 => s1.secret # s2.secret
    /\ \A s \in secrets, p \in Passwords :
          ComparePasswords(p, s.secret) => p = s.from

\* C18 (as claimed): with NODE_ENV = production no token is signed with the
\* built-in fallback secret and none is accepted under it; the fallback is
\* used in development only.
C18_NoFallbackInProduction ==
    nodeEnv = "production"
        => /\ \A b \in Browsers :
                 kept[b] # NULL => kept[b].signature.key # FallbackSecret
           /\ (last.run.op = "me" /\ last.run.cookie = "valid")
                 => JWT_SECRET # FallbackSecret

\* C19 (as claimed): the lifetime of every issued token, exp - iat, equals
\* the lifetime given by JWT_EXPIRES_IN, and 7 days when it is unset.
C19_LifetimeIsConfigured ==
    tokKind.kind \in {"issued", "delivered"}
        => tok.payload.exp - tok.payload.iat = ConfiguredLifetime

\* C20 (as claimed): the cookie's max-age is 604800 s, the lifetime of the
\* token it carries, and for a cookie and token created in one request the
\* browser holds the cookie exactly as long as the token is valid: never
\* with the token expired, never dropped with the token still valid.
C20_CookieLivesAsLongAsToken ==
    \A b \in Browsers :
        jar[b] # NULL
            => /\ jar[b].maxAge = 604800
               /\ jar[b].maxAge =
                      jar[b].value.payload.exp - jar[b].value.payload.iat
               /\ CookieSent(jar[b], now) # NULL
                      <=> now < jar[b].value.payload.exp

\* C20 (amended): the cookie's max-age is 604800 s, the span the token's
\* expiration is set from; the browser never drops the cookie while its
\* token is still valid; it can hold the cookie with the token expired,
\* for less than the time between the token's issued-at instant and the
\* receipt of the cookie, and such a cookie authenticates nobody.
C20_CookieOutlivesTokenByTheRun ==
    \A b \in Browsers :
        jar[b] # NULL
            => LET cookie == jar[b]
                   claims == jar[b].value.payload
               IN  /\ cookie.maxAge = 604800
                   /\ cookie.maxAge = TOKEN_EXPIRY
                   /\ now < claims.exp => CookieSent(cookie, now) # NULL
                   /\ (CookieSent(cookie, now) # NULL /\ claims.exp <= now)
                         => /\ now - claims.exp < cookie.setAt - claims.iat
                            /\ GetCurrentUser(CookieSent(cookie, now), now)
                                  = Return(NULL)

\* C20 case: the cookie reached the browser a second after its token was
\* stamped and is still held at the token's expiration instant
C20_Witness ==
    \E b \in Browsers :
        /\ jar[b] # NULL
        /\ jar[b].setAt > jar[b].value.payload.iat
        /\ CookieSent(jar[b], now) # NULL
        /\ jar[b].value.payload.exp <= now

\* C21: every session cookie a browser received from signup or login is
\* HTTP-only, same-site restricted and scoped to path "/", and is secure
\* exactly when NODE_ENV is production.
C21_CookieFlags ==
    \A b \in Browsers :
        jar[b] # NULL
            => /\ jar[b].name = "auth-token"
               /\ jar[b].httpOnly
               /\ jar[b].sameSite \in {"lax", "strict"}
               /\ jar[b].path = "/"
               /\ jar[b].secure <=> nodeEnv = "production"

\* C21 case: a login in production has just set the cookie
C21_Witness ==
    /\ nodeEnv = "production"
    /\ last.run.op = "login"
    /\ resp.setCookie = "set"
    /\ jar[last.browser] # NULL
    /\ jar[last.browser].secure

\* The bodies the routes answer failures with
FailureBodies(op, status) ==
    CASE op = "signup" /\ status = 400 ->
             {[error |-> "Email and password are required"],
              [error |-> "Invalid email format"],
              [error |-> "Password must be at least 8 characters"]}
      [] op = "signup" /\ status = 409 ->
             {[error |-> "An account with this email already exists"]}
      [] op = "signup" /\ status = 500 ->
             {[error |-> "An error occurred during registration"]}
      [] op = "login" /\ status = 400 ->
             {[error |-> "Email and password are required"]}
      [] op = "login" /\ status = 401 ->
             {[error |-> "Invalid email or password"]}
      [] op = "login" /\ status = 500 ->
             {[error |-> "An error occurred during login"]}
      [] op = "logout" /\ status = 500 ->
             {[error |-> "An error occurred during logout"]}
      [] op = "me" /\ status = 401 -> {[error |-> "Not authenticated"]}
      [] op = "me" /\ status = 404 -> {[error |-> "User not found"]}
      [] op = "me" /\ status = 500 -> {[error |-> "An error occurred"]}
      [] OTHER -> {}

\* The runs in which an exception was raised inside the handler
RaisedPaths == {"check-raised", "create-raised", "issue-raised",
                "lookup-raised", "auth-raised", "query-raised", "raised"}

\* C22: a run in which an exception was raised is answered 500, every
\* response other than 200 and 201 carries one of the route's fixed
\* messages, and the 500 message of a route is one message whatever the
\* exception was.
C22_FailuresCarryFixedMessages ==
    last.run.op # "none"
        => /\ resp.status \in {200, 201, 400, 401, 404, 409, 500}
           /\ last.run.path \in RaisedPaths <=> resp.status = 500
           /\ resp.status \notin {200, 201}
                 => /\ resp.body \in FailureBodies(last.run.op, resp.status)
                    /\ resp.setCookie = "none"
           /\ Cardinality(FailureBodies(last.run.op, 500)) = 1

\* C22 case: the insert of a signup was rejected by the unique index and
\* answered with the route's 500 message
C22_Witness ==
    /\ last.run.op = "signup"
    /\ last.run.path = "create-raised"
    /\ last.run.fault = "P2002"
    /\ resp.status = 500
    /\ resp.body = [error |-> "An error occurred during registration"]

\* C23: a verifyToken call changes no Account, Subscription, cookie or
\* other state, and a call on the token and at the instant of the previous
\* call returns what that call returned, whatever happened to storage in
\* between.
C23_VerifyTokenStateless ==
    [][(tokResult' # tokResult /\ tokResult' # NONE)
          => /\ UNCHANGED <<users, subscriptions, cases, integrations, nextId,
                            jar, kept, req, config, now, tok>>
             /\ tokResult'.before # NONE
                   => tokResult'.outcome = tokResult'.before.outcome]_vars

\* C23 case: a valid token was verified, an Account was inserted or
\* deleted, and the token was verified again at the same instant
C23_Witness ==
    /\ tokResult # NONE
    /\ tokResult.before # NONE
    /\ tokResult.before.storage # tokResult.storage
    /\ tokResult.class = "valid"
    /\ tokResult.outcome.value # NULL


\* C24: no step changes a Subscription that stays in storage, and every
\* stored Subscription has usage counter 0, tier Free and the active flag
\* set, across any sequence of signup, login, logout and me requests.
C24_SubscriptionsNeverChange ==
    [][/\ \A s \in subscriptions :
              (\E s2 \in subscriptions' : s2.userId = s.userId)
                  => s \in subscriptions'
       /\ \A s \in subscriptions' :
              /\ s.tier = "FREE"
              /\ s.csvUploadsThisMonth = 0
              /\ s.isActive]_vars

\* C24 case: a run of three requests ending in a me that reads the
\* Subscription of an Account created earlier in the run
C24_Witness ==
    /\ served = MaxRequests
    /\ last.run.op = "me"
    /\ last.run.path = "ok"
    /\ \E s \in subscriptions :
          /\ s.userId = resp.body.user.id
          /\ resp.body.user.subscription
                = [tier |-> s.tier,
                   csvUploadsThisMonth |-> s.csvUploadsThisMonth,
                   isActive |-> s.isActive]


\* C25: a signup answered 400, 409 or 500, a failure of token issuance or
\* cookie setting included, leaves the stored Accounts and Subscriptions
\* exactly as they were before the request.
C25_FailedSignupLeavesStorage ==
    [][\A b \in Browsers :
          (/\ last'.browser = b
           /\ last'.run.op = "signup"
           /\ req'[b] = IDLE
           /\ \/ req[b] = IDLE /\ served' = served + 1
              \/ req[b] # IDLE /\ req[b].op = "signup"
           /\ resp'.status \in {400, 409, 500})
              => /\ users' = users
                 /\ subscriptions' = subscriptions]_vars


\* C26: after a logout removed the cookie, the token it carried is still
\* accepted by verifyToken until its expiration instant, and a me request
\* presenting a retained copy is answered 200 with the token's Account
\* while that Account is stored, and 401 from the expiration instant on.
C26_LogoutDoesNotRevoke ==
    [][\A b \in Browsers :
          (/\ jar[b] = NULL
           /\ kept[b] # NULL
           /\ Me(b, kept[b], "none"))
              => /\ VerifyToken(kept[b], now).value # NULL
                       <=> now < kept[b].payload.exp
                 /\ (/\ now < kept[b].payload.exp
                     /\ \E u \in users : u.id = kept[b].payload.userId)
                       => /\ resp'.status = 200
                          /\ resp'.body.user.id = kept[b].payload.userId
                          /\ resp'.body.user.email = kept[b].payload.email
                 /\ now >= kept[b].payload.exp => resp'.status = 401]_vars

\* C26 case: in the last second of a token's life, after a logout, a me
\* request presenting the retained token was answered 200
C26_Witness ==
    /\ last.run.op = "me"
    /\ last.run.path = "ok"
    /\ jar[last.browser] = NULL
    /\ kept[last.browser] # NULL
    /\ kept[last.browser].payload.exp = now + 1
    /\ resp.body.user.id = kept[last.browser].payload.userId
    /\ envJwtSecret # ""


\* The Account a me request sent by browser b with its jar's cookie is
\* answered with when the storage query succeeds, NULL when it gets none
MeWouldReturn(b) ==
    LET auth == GetCurrentUser(CookieSent(jar[b], now), now)
    IN  IF auth.raised \/ auth.value = NULL THEN NULL
        ELSE FindUniqueById(auth.value.userId)

\* C27: a signup or login answered 400, 401 or 409 sets and deletes no
\* cookie: every browser's jar is as before, and a me request afterwards
\* returns the Account it would have returned before.
C27_FailedAuthKeepsSession ==
    [][\A b \in Browsers :
          (/\ last'.browser = b
           /\ last'.run.op \in {"signup", "login"}
           /\ req'[b] = IDLE
           /\ \/ req[b] = IDLE /\ served' = served + 1
              \/ req[b] # IDLE
           /\ resp'.status \in {400, 401, 409})
              => /\ resp'.setCookie = "none"
                 /\ jar' = jar
                 /\ \A b2 \in Browsers : MeWouldReturn(b2)' = MeWouldReturn(b2)]_vars

\* C27 case: a browser holding a valid session of a stored Account has had
\* a login rejected for a wrong password
C27_Witness ==
    /\ last.run.op = "login"
    /\ last.run.path = "badpw"
    /\ resp.status = 401
    /\ jar[last.browser] # NULL
    /\ MeWouldReturn(last.browser) # NULL


\* C28: a successful signup or login leaves in the browser's jar one
\* cookie, carrying the token of the Account just authenticated; a me
\* request afterwards returns that Account while it is stored and never
\* the Account of the session the jar held before.
C28_OneSessionTheLatest ==
    [][\A b \in Browsers :
          (/\ last'.browser = b
           /\ last'.run.op \in {"signup", "login"}
           /\ req[b] # IDLE
           /\ req'[b] = IDLE
           /\ resp'.status \in {200, 201})
              => /\ jar'[b] # NULL
                 /\ jar'[b].value = kept'[b]
                 /\ jar'[b].value.payload.userId = resp'.body.user.id
                 /\ jar'[b].value.payload.email = resp'.body.user.email
                 /\ MeWouldReturn(b)' # NULL
                       => MeWouldReturn(b)'.id = resp'.body.user.id
                 /\ (\E u \in users' : u.id = resp'.body.user.id)
                       => MeWouldReturn(b)' # NULL]_vars

\* C28 case: two Accounts are stored, the first has logged in on the only
\* browser that ever received a cookie, in the third request of the run
C28_Witness ==
    /\ served = MaxRequests
    /\ Cardinality(users) = 2
    /\ last.run.op = "login"
    /\ last.run.path = "ok"
    /\ resp.body.user.id = 1
    /\ jar[last.browser].value.payload.userId = 1
    /\ \A b \in Browsers \ {last.browser} : kept[b] = NULL


\* A step in which the handler of browser b issued a token
Issued(b) ==
    /\ req[b] # IDLE
    /\ req'[b] = IDLE
    /\ last'.browser = b
    /\ resp'.setCookie = "set"

AnswersBesideLoginOn(id) ==
    [signup |-> [body \in SignupBodies |->
                    [f \in {"none", "before"} |-> SignupCheckAnswer(body, f)]],
     create |-> [b \in {b \in Browsers : req[b].op = "signup"} |->
                    [s \in Salts |-> SignupCreateAnswer(req[b], s)]],
     login |-> [body \in {body \in LoginBodies :
                            \A u \in users :
                                u.id = id => u.email # ToLowerCase(body.email)} |->
                    [f \in {"none", "before"} |-> LoginLookupAnswer(body, f)]],
     finish |-> [b \in {b \in Browsers :
                          req[b].op = "login" /\ req[b].user.id # id} |->
                    LoginFinishAnswer(req[b])],
     me |-> [b \in Browsers |->
                [f \in {"none", "before"} |-> MeAnswer(b, f)]],
     logout |-> [b \in Browsers |-> LogoutAnswer(b)]]

\* The response and the cookie received by browser b are those of answer a
Received(b, a) ==
    /\ req'[b] = IDLE
    /\ resp'.status = a.status
    /\ resp'.body = a.body
    /\ IF a.payload = NULL THEN resp'.setCookie # "set"
       ELSE /\ resp'.setCookie = "set"
            /\ jar'[b].value.payload = a.payload

\* C30: no response body and no token payload has a field for the password
\* or its hash, and in the run that differs only in the stored password
\* hash of one Account every request that is not a login on that Account
\* gets the same answer: status, body and token payload.
C30_AnswersIgnoreStoredHash ==
    [][/\ \A id \in 1..MaxIds :
              Rehash(id) => AnswersBesideLoginOn(id)' = AnswersBesideLoginOn(id)
       /\ \A b \in Browsers :
              (last'.browser = b /\ req'[b] = IDLE /\ resp' # resp)
                  => /\ DOMAIN resp'.body \subseteq {"error", "message", "user"}
                     /\ "user" \in DOMAIN resp'.body
                           => DOMAIN resp'.body.user
                                 \subseteq {"id", "email", "name", "subscription"}
                     /\ resp'.setCookie = "set"
                           => DOMAIN jar'[b].value.payload
                                 = {"userId", "email", "iat", "exp"}
       /\ \A b \in Browsers :
              /\ \A body \in SignupBodies, f \in {"none", "before"} :
                    (/\ last'.browser = b
                     /\ req'[b] = IDLE
                     /\ SignupCheck(b, body.name, body.email, body.password, f))
                        => Received(b, SignupCheckAnswer(body, f))
              /\ \A s \in Salts :
                    SignupCreate(b, s, "none")
                        => Received(b, SignupCreateAnswer(req[b], s))
              /\ \A body \in LoginBodies, f \in {"none", "before"} :
                    (/\ last'.browser = b
                     /\ req'[b] = IDLE
                     /\ LoginLookup(b, body.email, body.password, f))
                        => Received(b, LoginLookupAnswer(body, f))
              /\ LoginFinish(b) => Received(b, LoginFinishAnswer(req[b]))
              /\ \A f \in {"none", "before"} :
                    Me(b, CookieSent(jar[b], now), f)
                        => Received(b, MeAnswer(b, f))
              /\ Logout(b, CookieSent(jar[b], now))
                    => Received(b, LogoutAnswer(b))]_vars

\* C30 case: an Account whose stored hash was replaced holds a session and
\* its me request has been answered 200
C30_Witness ==
    /\ last.run.op = "me"
    /\ last.run.path = "ok"
    /\ \E u \in users :
          /\ u.password = OtherHash
          /\ u.id = resp.body.user.id
          /\ jar[last.browser] # NULL
          /\ jar[last.browser].value.payload.userId = u.id

====
